---- MODULE Spec2Model ----
(***************************************************************************)
(* Model of the rotate_cli crate: square_len and rotate_right (lib.rs),    *)
(* stepped one loop iteration at a time, and the record loop of run        *)
(* (main.rs).  Buffers are functions over 0..len-1, as slices are indexed. *)
(***************************************************************************)
EXTENDS Integers, Sequences, FiniteSets, Bags, TLC

VARIABLES
    data,      \* the caller-owned slice handed to rotate_right
    pc,        \* position inside rotate_right ("idle" = no call in progress)
    result,    \* what the last call returned: "none", "Ok", "Empty", "NotSquare"
    n,         \* local n of rotate_right
    layer,     \* loop variable of `for layer in 0..n / 2`
    first,     \* local of rotate_ring_clockwise
    last,      \* local of rotate_ring_clockwise
    prev,      \* the single holding slot of rotate_ring_clockwise
    k,         \* the running col / row of the edge loop in progress
    visited,   \* history: indices written during the current call, in order
    data0,     \* history: the slice as it was when the current call began
    orig,      \* history: the slice as it was first constructed
    calls,     \* history: number of calls made so far
    sqArg,     \* argument of a stand-alone square_len call
    sqRes,     \* its result
    jsArg,     \* json text of a stand-alone process_json_array call
    jsRes,     \* its result: << >> before the call, <<result>> after it
    records,   \* run: the records the CSV reader will yield
    pos,       \* run: number of reader items consumed
    output,    \* run: rows written to stdout so far
    runpc      \* run: "off", "loop", "ok", "err"

rotVars == <<data, pc, result, n, layer, first, last, prev, k, visited, data0, orig, calls>>
sqVars  == <<sqArg, sqRes>>
runVars == <<records, pos, output, runpc>>
jsVars  == <<jsArg, jsRes>>
vars    == <<rotVars, sqVars, runVars, jsVars>>

----------------------------------------------------------------------------
(* Bounds *)
MaxN       == 6   \* largest side length of a patterned buffer
MaxFullLen == 4   \* buffers up to this length are enumerated over all values
NumValues  == 3   \* number of element values in enumerated buffers
MaxMod     == 2   \* patterned buffers with duplicates: i % m + 1, m <= MaxMod
MaxSqLen   == 150 \* largest argument of a stand-alone square_len call
MaxRecords == 3   \* longest reader stream of run
MaxJsonLen == 4   \* json arrays up to this length are enumerated over all elements
MaxI64     == 99  \* i64::MAX = 2^63 - 1 scaled down; the numbers above it
                  \* are those an i64 cannot hold

MaxCalls == 4 * (MaxN - 1)  \* enough calls to walk the largest outer ring round

Len0(d) == Cardinality(DOMAIN d)

Distinct(l)  == [i \in 0..(l - 1) |-> i + 1]
Modded(l, m) == [i \in 0..(l - 1) |-> (i % m) + 1]

InitBuffers ==
    UNION { [0..(l - 1) -> 0..(NumValues - 1)] : l \in 0..MaxFullLen }
    \cup { Distinct(l) : l \in 0..(MaxN * MaxN) }
    \cup { Modded(l, m) : l \in 0..(MaxN * MaxN), m \in 2..MaxMod }

----------------------------------------------------------------------------
(* square_len, lib.rs 38-45 *)
None    == <<"None">>
Some(x) == <<"Some", x>>

\* (len as f64).sqrt() as usize: the correctly rounded square root truncated
\* toward zero, which is floor(sqrt(len)) for every len a double holds exactly.
sqrt_as_usize(len) == CHOOSE r \in 0..len : r * r <= len /\ (r + 1) * (r + 1) > len

\* faulty variant: the integer re-check n * n == len is dropped
square_len_unchecked(len) ==
    IF len = 0 THEN Some(0) ELSE Some(sqrt_as_usize(len))

square_len(len) ==
    IF len = 0 THEN Some(0)
    ELSE LET r == sqrt_as_usize(len)
         IN  IF r * r = len THEN Some(r) ELSE None

\* faulty variant: row and column swapped
idx_transposed(nn, row, col) == col * nn + row

\* idx, lib.rs 146-148
idx(nn, row, col) == row * nn + col

----------------------------------------------------------------------------
(* rotate_right and rotate_ring_clockwise as steps over the call frame *)
Cur ==
    [data |-> data, pc |-> pc, result |-> result, n |-> n, layer |-> layer,
     first |-> first, last |-> last, prev |-> prev, k |-> k, visited |-> visited]

Enter(d) ==
    [data |-> d, pc |-> "entry", result |-> "none", n |-> 0, layer |-> 0,
     first |-> 0, last |-> 0, prev |-> 0, k |-> 0, visited |-> << >>]

\* return from rotate_right: the locals go out of scope
Return(m, res) ==
    [m EXCEPT !.pc = "idle", !.result = res, !.n = 0, !.layer = 0,
              !.first = 0, !.last = 0, !.prev = 0, !.k = 0]

\* an index out of bounds or an arithmetic underflow panics and unwinds
Panic(m) ==
    [m EXCEPT !.pc = "panic", !.n = 0, !.layer = 0,
              !.first = 0, !.last = 0, !.prev = 0, !.k = 0]

\* faulty variant: the empty check is missing, so length 0 falls through to square_len
CheckEmpty_skip(m) == [m EXCEPT !.pc = "square"]

\* faulty variant: the empty check is off by one and rejects a single cell too
CheckEmpty_offByOne(m) ==
    IF Len0(m.data) <= 1 THEN Return(m, "Empty") ELSE [m EXCEPT !.pc = "square"]

\* lib.rs 80-84
CheckEmpty(m) ==
    IF Len0(m.data) = 0 THEN Return(m, "Empty") ELSE [m EXCEPT !.pc = "square"]

\* faulty variant: the side is taken from the square root without validating it
CheckSquare_unvalidated(m) ==
    LET r == sqrt_as_usize(Len0(m.data))
    IN  IF r <= 1 THEN Return(m, "Ok")
        ELSE [m EXCEPT !.n = r, !.layer = 0, !.pc = "layers"]

\* lib.rs 86-91
CheckSquare(m) ==
    LET s == square_len(Len0(m.data))
    IN  IF s = None THEN Return(m, "NotSquare")
        ELSE IF s[2] <= 1 THEN Return(m, "Ok")
        ELSE [m EXCEPT !.n = s[2], !.layer = 0, !.pc = "layers"]

\* faulty variant: the walk is seeded with the element right of the top-left corner
BeginRing_seedRight(m) ==
    LET f == m.layer
        l == m.n - 1 - m.layer
        i == idx(m.n, f, f + 1)
    IN  IF l < 0 \/ i \notin DOMAIN m.data THEN Panic(m)
        ELSE [m EXCEPT !.first = f, !.last = l, !.prev = m.data[i],
                       !.k = f, !.pc = "top"]

\* faulty variant: the walk is seeded with the top-left corner itself
BeginRing_seedCorner(m) ==
    LET f == m.layer
        l == m.n - 1 - m.layer
        i == idx(m.n, f, f)
    IN  IF l < 0 \/ i \notin DOMAIN m.data THEN Panic(m)
        ELSE [m EXCEPT !.first = f, !.last = l, !.prev = m.data[i],
                       !.k = f, !.pc = "top"]

\* faulty variant: last is off by one, n - layer
BeginRing_lastPastEdge(m) ==
    LET f == m.layer
        l == m.n - m.layer
        i == idx(m.n, f + 1, f)
    IN  IF l < 0 \/ i \notin DOMAIN m.data THEN Panic(m)
        ELSE [m EXCEPT !.first = f, !.last = l, !.prev = m.data[i],
                       !.k = f, !.pc = "top"]

\* lib.rs 106-110: entry of rotate_ring_clockwise
BeginRing(m) ==
    LET f == m.layer
        l == m.n - 1 - m.layer
        i == idx(m.n, f + 1, f)
    IN  IF l < 0 \/ i \notin DOMAIN m.data THEN Panic(m)
        ELSE [m EXCEPT !.first = f, !.last = l, !.prev = m.data[i],
                       !.k = f, !.pc = "top"]

\* faulty variant: the layer range is inclusive, 0..=n / 2
LayerLoop_inclusive(m) ==
    IF m.layer <= m.n \div 2 THEN BeginRing(m) ELSE Return(m, "Ok")

\* lib.rs 94-98: head of `for layer in 0..n / 2`
LayerLoop(m) ==
    IF m.layer < m.n \div 2 THEN BeginRing(m) ELSE Return(m, "Ok")

\* faulty variant: the displaced value is not carried on (prev = temp is missing)
Visit_nocarry(m, i, nextk) ==
    IF i \notin DOMAIN m.data THEN Panic(m)
    ELSE [m EXCEPT !.data[i] = m.prev, !.k = nextk, !.visited = Append(@, i)]

\* faulty variant: a held zero is taken for "nothing held" and is not written
Visit_skipZero(m, i, nextk) ==
    IF i \notin DOMAIN m.data THEN Panic(m)
    ELSE IF m.prev = 0
         THEN [m EXCEPT !.prev = m.data[i], !.k = nextk, !.visited = Append(@, i)]
         ELSE [m EXCEPT !.data[i] = m.prev, !.prev = m.data[i], !.k = nextk,
                        !.visited = Append(@, i)]

\* the loop body shared by the four edges (lib.rs 114-116, 121-123, 128-130,
\* 135-137): temp = data[i]; data[i] = prev; prev = temp
Visit(m, i, nextk) ==
    IF i \notin DOMAIN m.data THEN Panic(m)
    ELSE [m EXCEPT !.data[i] = m.prev, !.prev = m.data[i], !.k = nextk,
                   !.visited = Append(@, i)]

\* faulty variant: the right column then starts at the corner row, first..=last
TopWalk_rightFromCorner(m) ==
    IF m.k <= m.last THEN Visit(m, idx(m.n, m.first, m.k), m.k + 1)
    ELSE [m EXCEPT !.pc = "right", !.k = m.first]

\* lib.rs 113-120: for col in first..=last, then the right column's range
TopWalk(m) ==
    IF m.k <= m.last THEN Visit(m, idx(m.n, m.first, m.k), m.k + 1)
    ELSE [m EXCEPT !.pc = "right", !.k = m.first + 1]

\* faulty variant: the bottom row then starts at the corner column, (first..=last).rev()
RightWalk_bottomFromCorner(m) ==
    IF m.k <= m.last THEN Visit(m, idx(m.n, m.k, m.last), m.k + 1)
    ELSE [m EXCEPT !.pc = "bottom", !.k = m.last]

\* lib.rs 120-127: for row in (first + 1)..=last, then the bottom row's range
RightWalk(m) ==
    IF m.k <= m.last THEN Visit(m, idx(m.n, m.k, m.last), m.k + 1)
    ELSE [m EXCEPT !.pc = "bottom", !.k = m.last - 1]

\* lib.rs 127-134: for col in (first..last).rev(), then the left column's range
BottomWalk(m) ==
    IF m.k >= m.first THEN Visit(m, idx(m.n, m.last, m.k), m.k - 1)
    ELSE [m EXCEPT !.pc = "left", !.k = m.last - 1]

\* lib.rs 134-139: for row in ((first + 1)..last).rev(), then the ring returns
LeftWalk(m) ==
    IF m.k >= m.first + 1 THEN Visit(m, idx(m.n, m.k, m.first), m.k - 1)
    ELSE [m EXCEPT !.pc = "layers", !.layer = m.layer + 1,
                   !.first = 0, !.last = 0, !.prev = 0, !.k = 0]

StepOf(m) ==
    CASE m.pc = "entry"  -> CheckEmpty(m)
      [] m.pc = "square" -> CheckSquare(m)
      [] m.pc = "layers" -> LayerLoop(m)
      [] m.pc = "top"    -> TopWalk(m)
      [] m.pc = "right"  -> RightWalk(m)
      [] m.pc = "bottom" -> BottomWalk(m)
      [] m.pc = "left"   -> LeftWalk(m)
      [] OTHER           -> m

RECURSIVE RunFrame(_)
RunFrame(m) == IF m.pc \in {"idle", "panic"} THEN m ELSE RunFrame(StepOf(m))

\* rotate_right as one call, lib.rs 79-99: the frame it ends in
rotate_right(d) == RunFrame(Enter(d))

----------------------------------------------------------------------------
Apply(m) ==
    /\ data' = m.data /\ pc' = m.pc /\ result' = m.result /\ n' = m.n
    /\ layer' = m.layer /\ first' = m.first /\ last' = m.last
    /\ prev' = m.prev /\ k' = m.k /\ visited' = m.visited

Idle == UNCHANGED <<sqVars, runVars, jsVars>>

Call ==
    /\ pc = "idle" /\ calls < MaxCalls
    /\ Apply(Enter(data))
    /\ data0' = data /\ calls' = calls + 1
    /\ UNCHANGED orig /\ Idle

EmptyStep  == pc = "entry"  /\ Apply(CheckEmpty(Cur))  /\ UNCHANGED <<data0, orig, calls>> /\ Idle
SquareStep == pc = "square" /\ Apply(CheckSquare(Cur)) /\ UNCHANGED <<data0, orig, calls>> /\ Idle
LayerStep  == pc = "layers" /\ Apply(LayerLoop(Cur))   /\ UNCHANGED <<data0, orig, calls>> /\ Idle
TopStep    == pc = "top"    /\ Apply(TopWalk(Cur))     /\ UNCHANGED <<data0, orig, calls>> /\ Idle
RightStep  == pc = "right"  /\ Apply(RightWalk(Cur))   /\ UNCHANGED <<data0, orig, calls>> /\ Idle
BottomStep == pc = "bottom" /\ Apply(BottomWalk(Cur))  /\ UNCHANGED <<data0, orig, calls>> /\ Idle
LeftStep   == pc = "left"   /\ Apply(LeftWalk(Cur))    /\ UNCHANGED <<data0, orig, calls>> /\ Idle

RotInit ==
    /\ data \in InitBuffers
    /\ pc = "idle" /\ result = "none" /\ n = 0 /\ layer = 0 /\ first = 0
    /\ last = 0 /\ prev = 0 /\ k = 0 /\ visited = << >>
    /\ data0 = data /\ orig = data /\ calls = 0

SqOff  == sqArg = 0 /\ sqRes = None
RunOff == records = << >> /\ pos = 0 /\ output = << >> /\ runpc = "off"
JsOff  == jsArg = <<"malformed", << >> >> /\ jsRes = << >>

Init == RotInit /\ SqOff /\ RunOff /\ JsOff

Next ==
    \/ Call
    \/ EmptyStep
    \/ SquareStep
    \/ LayerStep
    \/ TopStep
    \/ RightStep
    \/ BottomStep
    \/ LeftStep

Spec == Init /\ [][Next]_vars

----------------------------------------------------------------------------
(* square_len called on its own *)
Pending == <<"Pending">>

SqInit == sqArg \in 0..MaxSqLen /\ sqRes = Pending

RotOff ==
    /\ data = << >> /\ pc = "idle" /\ result = "none" /\ n = 0 /\ layer = 0
    /\ first = 0 /\ last = 0 /\ prev = 0 /\ k = 0 /\ visited = << >>
    /\ data0 = << >> /\ orig = << >> /\ calls = 0

SqCall ==
    /\ sqRes = Pending
    /\ sqRes' = square_len(sqArg)
    /\ UNCHANGED <<sqArg, rotVars, runVars, jsVars>>

InitSq == RotOff /\ SqInit /\ RunOff /\ JsOff
NextSq == SqCall
SpecSq == InitSq /\ [][NextSq]_vars

----------------------------------------------------------------------------
(* main.rs: process_json_array and the record loop of run.  A json field is  *)
(* modelled by what serde_json::from_str makes of it: <<"malformed", <<>>>>,  *)
(* <<"scalar", <<>>>> (valid JSON, not an array) or <<"array", elems>>, each  *)
(* element <<"int", v>> (an integer an i64 holds), <<"float", v>> (the whole  *)
(* number v.0 within the i64 range), <<"big", v>> (a whole number v outside   *)
(* the i64 range: a u64 above i64::MAX, or a float such as 1e30),             *)
(* <<"frac", v>> (v.5) or <<"str", 0>> (any non-number).                      *)
Malformed  == <<"malformed", << >> >>
Scalar     == <<"scalar", << >> >>
Arr(elems) == <<"array", elems>>
Ints(vs)   == Arr([j \in 1..Len(vs) |-> <<"int", vs[j]>>])

\* the invalid marker ("[]", false) and a valid result (json, true)
InvalidOut == [json |-> Arr(<< >>), is_valid |-> FALSE, panicked |-> FALSE]
ValidOut(nums) == [json |-> Ints(nums), is_valid |-> TRUE, panicked |-> FALSE]
PanicOut == [json |-> Arr(<< >>), is_valid |-> FALSE, panicked |-> TRUE]

\* Number::as_i64, main.rs 89: Some only for an integer an i64 holds
as_i64(e) == IF e[1] = "int" THEN Some(e[2]) ELSE None

\* Number::as_f64 and fract() == 0.0, main.rs 91-93
is_whole_f64(e) == e[1] \in {"int", "float", "big"}

\* `float_val as i64`, main.rs 94: the cast saturates at the ends of i64
f64_as_i64(v) ==
    IF v > MaxI64 THEN MaxI64 ELSE IF v < -MaxI64 - 1 THEN -MaxI64 - 1 ELSE v

\* main.rs 85-104: Some(numbers) or None when an element is not a whole number
RECURSIVE to_numbers(_, _)
to_numbers(elems, acc) ==
    IF elems = << >> THEN Some(acc)
    ELSE LET e == Head(elems)
         IN  IF e[1] \in {"str"} THEN None
             ELSE IF as_i64(e) # None
                  THEN to_numbers(Tail(elems), Append(acc, as_i64(e)[2]))
             ELSE IF is_whole_f64(e)
                  THEN to_numbers(Tail(elems), Append(acc, f64_as_i64(e[2])))
             ELSE None

AsSlice(nums) == [i \in 0..(Len(nums) - 1) |-> nums[i + 1]]
AsVec(d)      == [j \in 1..Len0(d) |-> d[j - 1]]

\* main.rs 71-125
process_json_array(json) ==
    IF json[1] # "array" THEN InvalidOut
    ELSE LET nums == to_numbers(json[2], << >>)
         IN  IF nums = None THEN InvalidOut
             ELSE IF square_len(Len(nums[2])) = None THEN InvalidOut
             ELSE IF nums[2] = << >> THEN InvalidOut
             ELSE LET r == rotate_right(AsSlice(nums[2]))
                  IN  IF r.pc = "panic" THEN PanicOut
                      ELSE IF r.result = "Ok" THEN ValidOut(AsVec(r.data))
                      ELSE InvalidOut

\* what rdr.records() yields: an error of the reader, or a record of nf fields
\* of which field 0 is id and field 1 (when present) is json
ReadErr == [kind |-> "err", nf |-> 0, id |-> "", json |-> Malformed]
Rec(nf, id, json) == [kind |-> "rec", nf |-> nf, id |-> id, json |-> json]

RunJson == { Malformed, Ints(<<1, 2, 3>>), Ints(<<1, 2, 3, 4>>) }
RunIds  == {"a", "b"}
RunItems ==
    {ReadErr}
    \cup { Rec(1, id, Malformed) : id \in RunIds }
    \cup { Rec(2, id, j) : id \in RunIds, j \in RunJson }
    \cup { Rec(3, "a", Arr(<< >>)) }

HeaderRow == [id |-> "id", json |-> <<"json", << >> >>, is_valid |-> "is_valid"]
Row(id, out) == [id |-> id, json |-> out.json,
                 is_valid |-> IF out.is_valid THEN "true" ELSE "false"]

\* faulty variant: a failed validation is propagated with `?` and ends the run
RunRecord_abortOnInvalid ==
    /\ runpc = "loop" /\ pos < Len(records)
    /\ LET item == records[pos + 1]
       IN  /\ pos' = pos + 1
           /\ IF item.kind = "err" THEN runpc' = "read_err" /\ output' = output
              ELSE IF item.nf < 2 THEN runpc' = "loop" /\ output' = output
              ELSE LET out == process_json_array(item.json)
                   IN  IF out.panicked THEN runpc' = "panic" /\ output' = output
                       ELSE IF ~out.is_valid THEN runpc' = "invalid_err" /\ output' = output
                       ELSE \E wrote \in BOOLEAN :
                              IF wrote
                              THEN runpc' = "loop" /\ output' = Append(output, Row(item.id, out))
                              ELSE runpc' = "write_err" /\ output' = output
    /\ UNCHANGED <<records, rotVars, sqVars, jsVars>>

\* main.rs 28-43: open the input, write the header row
RunStart ==
    /\ runpc = "start"
    /\ \E opened \in BOOLEAN, wrote \in BOOLEAN :
         IF ~opened THEN runpc' = "open_err" /\ output' = output
         ELSE IF ~wrote THEN runpc' = "header_err" /\ output' = output
         ELSE runpc' = "loop" /\ output' = <<HeaderRow>>
    /\ UNCHANGED <<records, pos, rotVars, sqVars, jsVars>>

\* main.rs 46-63: one iteration of `for result in rdr.records()`
RunRecord ==
    /\ runpc = "loop" /\ pos < Len(records)
    /\ LET item == records[pos + 1]
       IN  /\ pos' = pos + 1
           /\ IF item.kind = "err" THEN runpc' = "read_err" /\ output' = output
              ELSE IF item.nf < 2 THEN runpc' = "loop" /\ output' = output
              ELSE LET out == process_json_array(item.json)
                   IN  IF out.panicked THEN runpc' = "panic" /\ output' = output
                       ELSE \E wrote \in BOOLEAN :
                              IF wrote
                              THEN runpc' = "loop" /\ output' = Append(output, Row(item.id, out))
                              ELSE runpc' = "write_err" /\ output' = output
    /\ UNCHANGED <<records, rotVars, sqVars, jsVars>>

\* main.rs 65-66: the reader is exhausted; flush and return
RunFinish ==
    /\ runpc = "loop" /\ pos = Len(records)
    /\ \E flushed \in BOOLEAN : runpc' = IF flushed THEN "ok" ELSE "flush_err"
    /\ UNCHANGED <<records, pos, output, rotVars, sqVars, jsVars>>

RECURSIVE Streams(_)
Streams(len) ==
    IF len = 0 THEN {<< >>}
    ELSE LET shorter == Streams(len - 1)
         IN  shorter \cup { Append(st, it) : st \in { x \in shorter : Len(x) = len - 1 },
                                              it \in RunItems }

InitRun ==
    /\ RotOff /\ SqOff /\ JsOff
    /\ records \in Streams(MaxRecords)
    /\ pos = 0 /\ output = << >> /\ runpc = "start"

NextRun ==
    \/ RunStart
    \/ RunRecord
    \/ RunFinish

SpecRun == InitRun /\ [][NextRun]_vars

----------------------------------------------------------------------------
(* process_json_array called on its own *)
JsonElems ==
    { <<"int", 1>>, <<"int", 2>>, <<"int", -1>>, <<"float", 3>>,
      <<"big", MaxI64 + 1>>, <<"frac", 1>>, <<"str", 0>> }

RECURSIVE ElemSeqs(_)
ElemSeqs(len) ==
    IF len = 0 THEN {<< >>}
    ELSE LET shorter == ElemSeqs(len - 1)
         IN  shorter \cup { Append(es, e) : es \in { x \in shorter : Len(x) = len - 1 },
                                             e \in JsonElems }

JsonInputs ==
    {Malformed, Scalar}
    \cup { Arr(es) : es \in ElemSeqs(MaxJsonLen) }
    \cup { Ints([j \in 1..l |-> j]) : l \in 0..(MaxN * MaxN) }
    \cup { Arr([j \in 1..l |-> IF j = l THEN <<"big", -MaxI64 - 2>> ELSE <<"float", j>>]) :
             l \in 1..(MaxN * MaxN) }

JsCall ==
    /\ jsRes = << >>
    /\ jsRes' = <<process_json_array(jsArg)>>
    /\ UNCHANGED <<jsArg, rotVars, sqVars, runVars>>

InitJson ==
    /\ RotOff /\ SqOff /\ RunOff
    /\ jsArg \in JsonInputs /\ jsRes = << >>

NextJson == JsCall
SpecJson == InitJson /\ [][NextJson]_vars

----------------------------------------------------------------------------
(* The table geometry the properties are stated in (row-major, N x N) *)
PerfectSquare(len) == \E s \in 0..len : s * s = len
SideOf(len)        == CHOOSE s \in 0..len : s * s = len
Cell(nn, r, c)     == r * nn + c

Completed == pc = "idle" /\ result # "none"
Succeeded == pc = "idle" /\ result = "Ok"
IsTable(d) == PerfectSquare(Len0(d)) /\ SideOf(Len0(d)) >= 2

RingCells(nn, lay) ==
    { rc \in (lay..(nn - 1 - lay)) \X (lay..(nn - 1 - lay)) :
        \/ rc[1] = lay \/ rc[2] = lay
        \/ rc[1] = nn - 1 - lay \/ rc[2] = nn - 1 - lay }

RingPerimeter(nn, lay) == 4 * (nn - 1 - 2 * lay)

\* the cell that precedes <<r, c>> when ring lay is walked clockwise
CcwNeighbour(nn, lay, r, c) ==
    LET f == lay
        l == nn - 1 - lay
    IN  IF r = f /\ c > f THEN <<r, c - 1>>
        ELSE IF c = l /\ r > f THEN <<r - 1, c>>
        ELSE IF r = l /\ c < l THEN <<r, c + 1>>
        ELSE <<r + 1, c>>

Count(d, v)   == Cardinality({ i \in DOMAIN d : d[i] = v })
Range(d)      == { d[i] : i \in DOMAIN d }
SameBag(d, e) == \A v \in Range(d) \cup Range(e) : Count(d, v) = Count(e, v)
Injective(d)  == \A i, j \in DOMAIN d : d[i] = d[j] => i = j

----------------------------------------------------------------------------
\* C1: after a successful rotate_right on an N*N buffer, N >= 2, every cell of
\* every ring holds the pre-call value of its counter-clockwise neighbour on
\* the same ring.
C1_RingShift ==
    (Succeeded /\ IsTable(data0)) =>
        LET nn == SideOf(Len0(data0))
        IN  /\ DOMAIN data = DOMAIN data0
            /\ \A lay \in 0..((nn \div 2) - 1) : \A rc \in RingCells(nn, lay) :
                 LET src == CcwNeighbour(nn, lay, rc[1], rc[2])
                 IN  data[Cell(nn, rc[1], rc[2])] = data0[Cell(nn, src[1], src[2])]

C1_Witness ==
    /\ Succeeded /\ calls = 1
    /\ data0 = Distinct(25) /\ data[6] = 12 /\ data[0] = 6

\* C2: the outcome depends on the length alone: Empty iff 0, NotSquare iff
\* positive and not a perfect square, Ok iff a positive perfect square.
C2_OutcomeByLength ==
    Completed =>
        result = IF Len0(data0) = 0 THEN "Empty"
                 ELSE IF PerfectSquare(Len0(data0)) THEN "Ok"
                 ELSE "NotSquare"

C2_Witness == Completed /\ Len0(data0) = 0 /\ result = "Empty"

\* C3: a failing call writes no element at any point: whenever an error has
\* been returned, and all through a call on a buffer whose length is not a
\* positive perfect square, nothing was written and the buffer is as it was.
C3_FailureUntouched ==
    /\ result \in {"Empty", "NotSquare"} => visited = << >> /\ data = data0
    /\ (Len0(data0) = 0 \/ ~PerfectSquare(Len0(data0))) =>
           visited = << >> /\ data = data0 /\ data = orig

C3_Witness ==
    /\ pc = "idle" /\ result = "NotSquare" /\ Len0(data0) = 8 /\ data = data0

\* C4: square_len(len) is Some(n) exactly for the n >= 0 with n * n = len, and
\* None when there is no such n.
C4_SquareLen ==
    sqRes # Pending =>
        /\ \A s \in 0..sqArg : (sqRes = Some(s)) <=> (s * s = sqArg)
        /\ (sqRes = None) <=> ~PerfectSquare(sqArg)
        /\ sqRes = None \/ \E s \in 0..sqArg : sqRes = Some(s)

C4_Witness == sqArg = 144 /\ sqRes = Some(12)

\* C5 as stated: 4*(N-1) successful rotations return the whole buffer to its
\* original contents.
C5_PerimeterIdentity ==
    (Succeeded /\ IsTable(orig) /\ calls = 4 * (SideOf(Len0(orig)) - 1)) =>
        data = orig

\* C5 amended: 4*(N-1) successful rotations restore every ring whose perimeter
\* divides 4*(N-1) (the outer ring always) and every cell off the rings.
C5_DividingRingsRestored ==
    (Succeeded /\ IsTable(orig) /\ calls = 4 * (SideOf(Len0(orig)) - 1)) =>
        LET nn == SideOf(Len0(orig))
            p  == 4 * (nn - 1)
            restored == { lay \in 0..((nn \div 2) - 1) : p % RingPerimeter(nn, lay) = 0 }
        IN  /\ DOMAIN data = DOMAIN orig
            /\ 0 \in restored
            /\ \A lay \in restored : \A rc \in RingCells(nn, lay) :
                 data[Cell(nn, rc[1], rc[2])] = orig[Cell(nn, rc[1], rc[2])]
            /\ (restored = 0..((nn \div 2) - 1)) => data = orig

C5_Witness ==
    /\ Succeeded /\ orig = Distinct(25) /\ calls = 16 /\ data = orig

\* C6 as stated: a call on a buffer of 0 or 1 elements leaves it unchanged and
\* reports success.
C6_FixedPointBoth ==
    (Completed /\ Len0(data0) <= 1) => result = "Ok" /\ data = data0

\* C6 amended: a call on a 1-element buffer leaves it unchanged and reports
\* Ok; a call on the 0-element buffer leaves it unchanged and reports Empty.
C6_FixedPointOne ==
    Completed =>
        /\ Len0(data0) = 1 => result = "Ok" /\ data = data0 /\ visited = << >>
        /\ Len0(data0) = 0 => result = "Empty" /\ data = data0 /\ visited = << >>

C6_Witness == Completed /\ Len0(data0) = 1 /\ result = "Ok" /\ calls >= 2

\* C7: for odd N the centre cell is never written, so it holds its original
\* value at every point of every rotation.
C7_CentreUntouched ==
    (PerfectSquare(Len0(orig)) /\ SideOf(Len0(orig)) % 2 = 1) =>
        LET nn == SideOf(Len0(orig))
            ctr == Cell(nn, (nn - 1) \div 2, (nn - 1) \div 2)
        IN  /\ ctr \in DOMAIN data /\ data[ctr] = orig[ctr]
            /\ \A j \in 1..Len(visited) : visited[j] # ctr

C7_Witness ==
    /\ Succeeded /\ orig = Distinct(25) /\ calls = 3 /\ data[12] = 13
    /\ Len(visited) = 24

\* C8: after any number of successful rotations the buffer has its original
\* length and is a permutation of the original buffer, duplicates included.
C8_Permutation ==
    Succeeded =>
        /\ DOMAIN data = DOMAIN orig /\ SameBag(data, orig)
        /\ DOMAIN data = DOMAIN data0 /\ SameBag(data, data0)

C8_Witness ==
    /\ Succeeded /\ IsTable(orig) /\ ~Injective(orig)
    /\ data # data0 /\ data # orig /\ calls >= 2

----------------------------------------------------------------------------
\* what C10 is stated in: the records of a stream that get a row, and whether
\* a json field is a valid table (whole numbers, positive perfect-square count)
RowRecords(st) == SelectSeq(st, LAMBDA it : it.kind = "rec" /\ it.nf >= 2)

ValidTable(json) ==
    /\ json[1] = "array"
    /\ \A j \in 1..Len(json[2]) : json[2][j][1] \in {"int", "float", "big"}
    /\ Len(json[2]) > 0 /\ PerfectSquare(Len(json[2]))

\* the reader items run has dealt with completely
Processed == IF runpc \in {"read_err", "write_err"} THEN pos - 1 ELSE pos

\* C10: an invalid json field never ends the run: the rows written are, one
\* to one and in order, the records read so far that have at least 2 fields,
\* each with its id and with is_valid = false when its json is invalid; the
\* run ends early only on an error of the reader or the writer, and a run
\* that returns Ok has consumed every record.
C10_InvalidNeverAborts ==
    runpc \notin {"off", "start", "open_err", "header_err"} =>
        LET want == RowRecords(SubSeq(records, 1, Processed))
            rows == Tail(output)
        IN  /\ Head(output) = HeaderRow
            /\ Len(rows) = Len(want)
            /\ \A j \in 1..Len(want) :
                 /\ rows[j].id = want[j].id
                 /\ ~ValidTable(want[j].json) =>
                        rows[j].is_valid = "false" /\ rows[j].json = Arr(<< >>)
            /\ runpc \in {"loop", "ok", "flush_err", "read_err", "write_err"}
            /\ runpc = "read_err" => records[pos].kind = "err"
            /\ runpc = "write_err" => records[pos].kind = "rec" /\ records[pos].nf >= 2
            /\ runpc \in {"ok", "flush_err"} => pos = Len(records)

C10_Witness ==
    /\ runpc = "ok" /\ Len(records) = 3 /\ Len(output) = 4
    /\ ~ValidTable(records[1].json) /\ records[1].id = "b"
    /\ output[2].is_valid = "false" /\ output[4].is_valid = "true"

----------------------------------------------------------------------------
\* the one-step clockwise ring shift of a table given as a sequence of N*N
\* values, stated from the ring geometry
RingLayerOf(nn, r, c) ==
    LET a == IF r < c THEN r ELSE c
        b == IF nn - 1 - r < nn - 1 - c THEN nn - 1 - r ELSE nn - 1 - c
    IN  IF a < b THEN a ELSE b

ShiftedTable(vals) ==
    LET nn == SideOf(Len(vals))
    IN  [j \in 1..Len(vals) |->
           LET r == (j - 1) \div nn
               c == (j - 1) % nn
               lay == RingLayerOf(nn, r, c)
           IN  IF lay >= nn \div 2 THEN vals[j]
               ELSE LET src == CcwNeighbour(nn, lay, r, c)
                    IN  vals[Cell(nn, src[1], src[2]) + 1]]

\* the numbers a json array of whole numbers denotes
NumbersOf(json) == [j \in 1..Len(json[2]) |-> json[2][j][2]]

\* C11: process_json_array returns ("[]", false) for every input that is not
\* an array of integer-valued numbers with a positive perfect-square count,
\* and (the serialized one-step rotation of the input's numbers, true) for
\* every other input; true never comes with an empty array.
C11_ProcessJson ==
    jsRes # << >> =>
        /\ ~jsRes[1].panicked
        /\ IF ValidTable(jsArg)
           THEN /\ jsRes[1].is_valid
                /\ jsRes[1].json = Ints(ShiftedTable(NumbersOf(jsArg)))
           ELSE /\ ~jsRes[1].is_valid
                /\ jsRes[1].json = Arr(<< >>)
        /\ ~(jsRes[1].is_valid /\ jsRes[1].json = Arr(<< >>))

----------------------------------------------------------------------------
(* Rings as index sets and as clockwise walks, for C12 and C13 *)
InWalk    == pc \in {"top", "right", "bottom", "left"}
InCall    == pc \in {"layers", "top", "right", "bottom", "left"} \/ Succeeded
SideNow   == SideOf(Len0(data0))
\* rings completely walked in the current state
RingsDone == IF Succeeded THEN SideNow \div 2 ELSE layer

RingIdx(nn, lay) == { Cell(nn, rc[1], rc[2]) : rc \in RingCells(nn, lay) }
VisitedSet       == { visited[j] : j \in 1..Len(visited) }

\* the j-th cell of ring lay walked clockwise from its top-left corner
RingOrder(nn, lay) ==
    LET f == lay
        l == nn - 1 - lay
        s == l - f
    IN  [j \in 1..(4 * s) |->
           IF j <= s + 1 THEN Cell(nn, f, f + (j - 1))
           ELSE IF j <= 2 * s + 1 THEN Cell(nn, f + (j - s - 1), l)
           ELSE IF j <= 3 * s + 1 THEN Cell(nn, l, l - (j - 2 * s - 1))
           ELSE Cell(nn, l - (j - 3 * s - 1), f)]

RECURSIVE WalkOrder(_, _)
WalkOrder(nn, rings) ==
    IF rings = 0 THEN << >>
    ELSE WalkOrder(nn, rings - 1) \o RingOrder(nn, rings - 1)

\* C12: a ring's walk writes each cell of that ring exactly once and no cell
\* outside it, so a call writes every non-centre cell exactly once and every
\* cell not yet written holds its pre-call value.
C12_RingFrame ==
    (IsTable(data0) /\ InCall) =>
        LET nn   == SideNow
            done == UNION { RingIdx(nn, lay) : lay \in 0..(RingsDone - 1) }
            cur  == IF InWalk THEN RingIdx(nn, layer) ELSE {}
            ctr  == IF nn % 2 = 1
                    THEN {Cell(nn, (nn - 1) \div 2, (nn - 1) \div 2)} ELSE {}
        IN  /\ \A i, j \in 1..Len(visited) : visited[i] = visited[j] => i = j
            /\ done \subseteq VisitedSet
            /\ VisitedSet \subseteq done \cup cur
            /\ \A i \in DOMAIN data \ VisitedSet : data[i] = data0[i]
            /\ Succeeded => VisitedSet = DOMAIN data \ ctr

C12_Witness ==
    /\ Succeeded /\ calls = 1 /\ data0 = Distinct(36) /\ Len(visited) = 36

\* C13: a ring is walked clockwise from its top-left corner, top row, right
\* column, bottom row, left column; each visit writes the pre-call value of
\* the cell visited just before (the first visit that of (first+1, first)),
\* and after the last visit the held value is the pre-call value of
\* (first+1, first), which (first, first) already holds.
C13_ClockwiseCarry ==
    (IsTable(data0) /\ InCall) =>
        LET nn    == SideNow
            order == WalkOrder(nn, nn \div 2)
            base  == Len(WalkOrder(nn, RingsDone))
            seed(lay) == Cell(nn, lay + 1, lay)
            \* the cell whose pre-call value the j-th visit of the call writes
            src(j) == LET lay == CHOOSE x \in 0..((nn \div 2) - 1) :
                                   /\ Len(WalkOrder(nn, x)) < j
                                   /\ j <= Len(WalkOrder(nn, x + 1))
                      IN  IF j = Len(WalkOrder(nn, lay)) + 1 THEN seed(lay)
                          ELSE order[j - 1]
        IN  /\ Len(visited) <= Len(order)
            /\ visited = SubSeq(order, 1, Len(visited))
            /\ ~InWalk => Len(visited) = base
            /\ InWalk => /\ base <= Len(visited)
                         /\ Len(visited) <= base + RingPerimeter(nn, layer)
            /\ \A j \in 1..Len(visited) : data[visited[j]] = data0[src(j)]
            /\ InWalk =>
                 prev = IF Len(visited) = base THEN data0[seed(layer)]
                        ELSE data0[visited[Len(visited)]]
            /\ (pc = "left" /\ k = first) =>
                 /\ Len(visited) = base + RingPerimeter(nn, layer)
                 /\ visited[Len(visited)] = seed(layer)
                 /\ prev = data0[seed(layer)]
                 /\ data[Cell(nn, first, first)] = prev

C13_Witness ==
    /\ pc = "left" /\ k = first /\ layer = 1 /\ calls = 1
    /\ data0 = Distinct(36) /\ prev = 14 /\ data[7] = 14

----------------------------------------------------------------------------
(* Relabellings of element values, for C14 *)
RelabelInc(v)    == v + 1
RelabelNeg(v)    == 0 - v
RelabelParity(v) == v % 2
RelabelConst(v)  == 7
Relabelled(F(_), d) == [i \in DOMAIN d |-> F(d[i])]

\* the call just completed agrees with a call on the relabelled pre-call buffer
SameUnder(F(_)) ==
    LET r == rotate_right(Relabelled(F, data0))
    IN  /\ r.pc = "idle" /\ r.result = result
        /\ r.visited = visited
        /\ r.data = Relabelled(F, data)

\* C14: rotate_right is oblivious to element values: the outcome and the
\* positions written depend on the length only, rotating a relabelled buffer
\* gives the relabelled rotation, and the position permutation applied is the
\* one applied to the buffer 1, 2, ..., len of the same length.
C14_Oblivious ==
    Completed =>
        /\ SameUnder(RelabelInc) /\ SameUnder(RelabelNeg)
        /\ SameUnder(RelabelParity) /\ SameUnder(RelabelConst)
        /\ LET q == rotate_right(Distinct(Len0(data0)))
           IN  /\ q.pc = "idle" /\ q.result = result /\ q.visited = visited
               /\ DOMAIN q.data = DOMAIN data
               /\ \A i \in DOMAIN data : data[i] = data0[q.data[i] - 1]

C14_Witness ==
    /\ Succeeded /\ IsTable(data0) /\ ~Injective(data0)
    /\ \E i \in DOMAIN data0 : data0[i] = 0
    /\ data # data0

\* the index the walk will read and write next
NextIndex ==
    CASE pc = "top"    -> Cell(n, first, k)
      [] pc = "right"  -> Cell(n, k, last)
      [] pc = "bottom" -> Cell(n, last, k)
      [] pc = "left"   -> Cell(n, k, first)

LoopRuns ==
    \/ pc \in {"top", "right"} /\ k <= last
    \/ pc = "bottom" /\ k >= first
    \/ pc = "left" /\ k >= first + 1

\* C15: rotate_right never panics: n - 1 - layer never underflows, first < last
\* in every ring, and every index read or written, the initial read of
\* (first+1, first) included, lies in [0, N*N).
C15_IndexSafety ==
    /\ pc # "panic"
    /\ \A j \in 1..Len(visited) : visited[j] \in 0..(Len0(data) - 1)
    /\ pc \in {"layers", "top", "right", "bottom", "left"} =>
         /\ n >= 2 /\ n * n = Len0(data) /\ 0 <= layer /\ layer <= n \div 2
    /\ (pc = "layers" /\ layer < n \div 2) =>
         /\ n - 1 - layer >= 0
         /\ layer < n - 1 - layer
         /\ Cell(n, layer + 1, layer) \in 0..(n * n - 1)
    /\ InWalk =>
         /\ layer < n \div 2
         /\ first = layer /\ last = n - 1 - layer
         /\ 0 <= first /\ first < last /\ last <= n - 1
         /\ Cell(n, first + 1, first) \in 0..(n * n - 1)
         /\ LoopRuns => /\ NextIndex \in 0..(n * n - 1)
                        /\ k \in first..last

C15_Witness ==
    /\ pc = "bottom" /\ layer = 2 /\ Len0(data) = 36 /\ k = first
    /\ NextIndex = Cell(6, 3, 2)

====
